---- MODULE Spec2Model ----
(***************************************************************************)
(* Model of the Demo Jam API: an HTTP CRUD service over one in-memory      *)
(* slice `items` guarded by the mutex `itemsLock`.  Every request runs in  *)
(* its own goroutine (a worker); a worker steps through the handler it was *)
(* dispatched to: decode the body, Lock, scan and mutate, respond, and the *)
(* deferred Unlock.                                                        *)
(***************************************************************************)
EXTENDS Integers, Sequences, FiniteSets, TLC

\* ------------------------------------------------------------------ bounds
\* number of goroutines serving requests at the same time
NumWorkers == 2
\* total number of requests the server accepts in one run
MaxRequests == 3
\* the draws of rand.Intn that are explored: 0 .. MaxDraw-1
MaxDraw == 2
\* nested respondWithJSON calls that are followed
MaxDepth == 3

\* ------------------------------------------------------- program constants
\* rand.Intn(1000000)
RandRange == 1000000

StatusOK == 200
StatusCreated == 201
StatusBadRequest == 400
StatusNotFound == 404
StatusInternalServerError == 500

Workers == 1..NumWorkers

Min(a, b) == IF a < b THEN a ELSE b

\* the values rand.Intn(RandRange) may return, cut at MaxDraw
Draws == 0..(Min(MaxDraw, RandRange) - 1)

\* ---------------------------------------------------------------- requests
\* ids a client puts in the path /items/{id}
PathIds == {"1", "999"}

\* Request bodies.  A body is either well-formed JSON or not; `fields` are
\* the members of the JSON object that were read before decoding stopped.
Bodies ==
  { [wellformed |-> TRUE,  fields |-> [id |-> "client-id", name |-> "A", description |-> "B"]],
    [wellformed |-> TRUE,  fields |-> [name |-> "C"]],
    [wellformed |-> FALSE, fields |-> [name |-> "Bad JSON"]] }

NoBody == [wellformed |-> FALSE, fields |-> [none |-> ""]]

Requests ==
  { [kind |-> "getItems", id |-> "", body |-> NoBody] }
  \cup { [kind |-> k, id |-> i, body |-> NoBody] : k \in {"getItem", "deleteItem"}, i \in PathIds }
  \cup { [kind |-> "createItem", id |-> "", body |-> b] : b \in Bodies }
  \cup { [kind |-> "updateItem", id |-> i, body |-> b] : i \in PathIds, b \in Bodies }

NoRequest == [kind |-> "none", id |-> "", body |-> NoBody]

\* ------------------------------------------------------------------- Item
Item(id, name, description) == [ID |-> id, Name |-> name, Description |-> description]

\* var item Item: the zero value
ZeroItem == Item("", "", "")

\* the mock data main appends before serving
SeedItems ==
  << Item("1", "Default Item 1", "This is the first item"),
     Item("2", "Default Item 2", "This is the second item"),
     Item("3", "Default Item 3", "This is the third item"),
     Item("4", "Default Item 4", "This is the fourth item"),
     Item("5", "Default Item 5", "This is the fifth item") >>

\* ---------------------------------------------------------- pure functions
DigitStr == <<"0", "1", "2", "3", "4", "5", "6", "7", "8", "9">>

RECURSIVE Itoa(_)
\* strconv.Itoa for n >= 0: the decimal digits of n
Itoa(n) == IF n < 10 THEN DigitStr[n + 1]
           ELSE Itoa(n \div 10) \o DigitStr[(n % 10) + 1]

\* the member `k` of a decoded JSON object, or the zero value
Field(b, k) == IF k \in DOMAIN b.fields THEN b.fields[k] ELSE ""

\* a decoder whose error is dropped: the handler goes on with what was read
DecodeIgnoringError(b) ==
  [err  |-> FALSE,
   item |-> Item(Field(b, "id"), Field(b, "name"), Field(b, "description"))]

\* json.NewDecoder(r.Body).Decode(&item)
Decode(b) ==
  [err  |-> ~b.wellformed,
   item |-> Item(Field(b, "id"), Field(b, "name"), Field(b, "description"))]

\* json.Marshal fails only for values it cannot encode (channels, functions,
\* cycles, NaN); Item, []Item and map[string]string always encode.
\* A payload holding such a value is a record with a member `unsupported`.
MarshalFails(payload) == "unsupported" \in DOMAIN payload

\* the response as the client receives it
Response(code, payload) == [code |-> code, body |-> payload]

\* map[string]string{"error": message}
ErrorPayload(message) == [error |-> message]

RECURSIVE respondWithJSON(_, _)
\* respondWithError: a JSON error message through respondWithJSON
respondWithError(code, message) == respondWithJSON(code, ErrorPayload(message))

\* respondWithJSON: marshal the payload; on failure answer 500 through
\* respondWithError, else write the header `code` and the body
respondWithJSON(code, payload) ==
  IF MarshalFails(payload)
  THEN respondWithError(StatusInternalServerError, "Failed to marshal JSON response")
  ELSE Response(code, payload)

NoResponse == [code |-> 0]

\* a scan that falls out of the loop with the last index instead of no match
IndexOfOrLast(s, id) ==
  IF \E i \in 1..Len(s) : s[i].ID = id
  THEN CHOOSE i \in 1..Len(s) : s[i].ID = id /\ \A j \in 1..(i - 1) : s[j].ID # id
  ELSE Len(s)

\* for index, item := range items { if item.ID == id {...; return} }:
\* the first index whose ID is id, 0 when the loop ends without a match
IndexOf(s, id) ==
  IF \E i \in 1..Len(s) : s[i].ID = id
  THEN CHOOSE i \in 1..Len(s) : s[i].ID = id /\ \A j \in 1..(i - 1) : s[j].ID # id
  ELSE 0

\* append(items[:index+1], items[index+2:]...): off by one
RemoveAfter(s, i) == SubSeq(s, 1, i) \o SubSeq(s, i + 2, Len(s))

\* append(items[:index], items[index+1:]...)
RemoveAt(s, i) == SubSeq(s, 1, i - 1) \o SubSeq(s, i + 1, Len(s))

\* ------------------------------------------------------------------ state
VARIABLES
  items,        \* the slice `items`
  itemsLock,    \* 0 when the mutex is free, else the worker holding it
  pc,           \* where each worker is in its handler
  req,          \* the request each worker serves
  item,         \* the handler's local `item` / `updatedItem`
  index,        \* the handler's local `index` of the match
  resp,         \* what each worker has written to its ResponseWriter
  nreq,         \* requests accepted so far
  before,       \* history: `items` as they were when the lock was last acquired
  serialItems,  \* history: the collection after running the finished requests one at a time
  lastCreated,  \* history: the item of the Create that held the lock last, if a Create did
  deletedSince, \* history: the ids of the Deletes answered 200 since the last Create
  answered201,  \* history: number of Creates answered 201
  answered200,  \* history: number of Deletes answered 200
  call          \* a respondWithJSON call followed step by step

\* what only the deferred Unlock records
sequel == <<lastCreated, deletedSince>>

\* what only the success response records
accounting == <<answered201, answered200>>

vars == <<items, itemsLock, pc, req, item, index, resp, nreq, before, serialItems,
          lastCreated, deletedSince, answered201, answered200, call>>

\* no Create held the lock last
NoItem == [none |-> TRUE]

\* no respondWithJSON call is followed
NoCall == [at |-> "none"]

\* the server as main leaves it when it starts to listen
ServerInit ==
  /\ items = SeedItems
  /\ itemsLock = 0
  /\ pc = [p \in Workers |-> "idle"]
  /\ req = [p \in Workers |-> NoRequest]
  /\ item = [p \in Workers |-> ZeroItem]
  /\ index = [p \in Workers |-> 0]
  /\ resp = [p \in Workers |-> NoResponse]
  /\ nreq = 0
  /\ before = << >>
  /\ serialItems = SeedItems
  /\ lastCreated = NoItem
  /\ deletedSince = {}
  /\ answered201 = 0
  /\ answered200 = 0

Init == ServerInit /\ call = NoCall

\* ---------------------------------------------------------------- handlers
\* what the handler of a request does first: createItem and updateItem decode
\* the body before they lock, the others lock at once
Entry(kind) == IF kind \in {"createItem", "updateItem"} THEN "decode" ELSE "lock"

\* the router dispatches a request to its handler in a goroutine of its own
Accept(p) ==
  /\ pc[p] = "idle"
  /\ nreq < MaxRequests
  /\ \E r \in Requests :
       /\ req' = [req EXCEPT ![p] = r]
       /\ pc' = [pc EXCEPT ![p] = Entry(r.kind)]
  /\ item' = [item EXCEPT ![p] = ZeroItem]
  /\ index' = [index EXCEPT ![p] = 0]
  /\ resp' = [resp EXCEPT ![p] = NoResponse]
  /\ nreq' = nreq + 1
  /\ UNCHANGED <<items, itemsLock, before, serialItems>>
  /\ UNCHANGED <<sequel, accounting, call>>

\* createItem / updateItem: decode the body; on an error write 400 and go to
\* the return
DecodeBody(p) ==
  /\ pc[p] = "decode"
  /\ LET d == Decode(req[p].body) IN
       IF d.err
       THEN /\ resp' = [resp EXCEPT ![p] = respondWithError(StatusBadRequest, "Invalid request payload")]
            /\ pc' = [pc EXCEPT ![p] = "return"]
            /\ UNCHANGED item
       ELSE /\ item' = [item EXCEPT ![p] = d.item]
            /\ pc' = [pc EXCEPT ![p] = "lock"]
            /\ UNCHANGED resp
  /\ UNCHANGED <<items, itemsLock, req, index, nreq, before, serialItems>>
  /\ UNCHANGED <<sequel, accounting, call>>

\* a Lock that does not wait for the holder
LockWithoutWaiting(p) ==
  /\ pc[p] = "lock"
  /\ itemsLock' = p
  /\ pc' = [pc EXCEPT ![p] = "cs"]
  /\ before' = items
  /\ UNCHANGED <<items, req, item, index, resp, nreq, serialItems>>
  /\ UNCHANGED <<sequel, accounting, call>>

\* itemsLock.Lock(): blocks until the mutex is free
Lock(p) ==
  /\ pc[p] = "lock"
  /\ itemsLock = 0
  /\ itemsLock' = p
  /\ pc' = [pc EXCEPT ![p] = "cs"]
  /\ before' = items
  /\ UNCHANGED <<items, req, item, index, resp, nreq, serialItems>>
  /\ UNCHANGED <<sequel, accounting, call>>

\* a getItems that answers with items[1:]
getItemsWithoutFirst(p) ==
  /\ pc[p] = "cs"
  /\ req[p].kind = "getItems"
  /\ resp' = [resp EXCEPT ![p] = respondWithJSON(StatusOK, [items |-> Tail(items)])]
  /\ pc' = [pc EXCEPT ![p] = "unlock"]
  /\ UNCHANGED <<items, itemsLock, req, item, index, nreq, before, serialItems>>
  /\ UNCHANGED <<sequel, accounting, call>>

\* getItems: respondWithJSON(w, http.StatusOK, items)
getItems(p) ==
  /\ pc[p] = "cs"
  /\ req[p].kind = "getItems"
  /\ resp' = [resp EXCEPT ![p] = respondWithJSON(StatusOK, [items |-> items])]
  /\ pc' = [pc EXCEPT ![p] = "unlock"]
  /\ UNCHANGED <<items, itemsLock, req, item, index, nreq, before, serialItems>>
  /\ UNCHANGED <<sequel, accounting, call>>

\* a getItem whose scan does not return at the first match: the last one wins
getItemLastMatch(p) ==
  /\ pc[p] = "cs"
  /\ req[p].kind = "getItem"
  /\ LET m == {i \in 1..Len(items) : items[i].ID = req[p].id}
         i == IF m = {} THEN 0 ELSE CHOOSE k \in m : \A j \in m : j <= k
     IN /\ index' = [index EXCEPT ![p] = i]
        /\ resp' = [resp EXCEPT ![p] =
              IF i # 0 THEN respondWithJSON(StatusOK, items[i])
              ELSE respondWithError(StatusNotFound, "Item not found")]
  /\ pc' = [pc EXCEPT ![p] = "unlock"]
  /\ UNCHANGED <<items, itemsLock, req, item, nreq, before, serialItems>>
  /\ UNCHANGED <<sequel, accounting, call>>

\* getItem: scan for the id; 200 with the first match, else 404
getItem(p) ==
  /\ pc[p] = "cs"
  /\ req[p].kind = "getItem"
  /\ LET i == IndexOf(items, req[p].id) IN
       /\ index' = [index EXCEPT ![p] = i]
       /\ resp' = [resp EXCEPT ![p] =
             IF i # 0 THEN respondWithJSON(StatusOK, items[i])
             ELSE respondWithError(StatusNotFound, "Item not found")]
  /\ pc' = [pc EXCEPT ![p] = "unlock"]
  /\ UNCHANGED <<items, itemsLock, req, item, nreq, before, serialItems>>
  /\ UNCHANGED <<sequel, accounting, call>>

\* a createItem that keeps the id the client sent when there is one
createItemKeepingBodyId(p) ==
  /\ pc[p] = "cs"
  /\ req[p].kind = "createItem"
  /\ \E d \in Draws :
       LET stored == IF item[p].ID = "" THEN [item[p] EXCEPT !.ID = Itoa(d)] ELSE item[p] IN
         /\ item' = [item EXCEPT ![p] = stored]
         /\ items' = Append(items, stored)
  /\ pc' = [pc EXCEPT ![p] = "respond"]
  /\ UNCHANGED <<itemsLock, req, index, resp, nreq, before, serialItems>>
  /\ UNCHANGED <<sequel, accounting, call>>

\* createItem: item.ID = strconv.Itoa(rand.Intn(1000000)); items = append(items, item)
createItem(p) ==
  /\ pc[p] = "cs"
  /\ req[p].kind = "createItem"
  /\ \E d \in Draws :
       LET stored == [item[p] EXCEPT !.ID = Itoa(d)] IN
         /\ item' = [item EXCEPT ![p] = stored]
         /\ items' = Append(items, stored)
  /\ pc' = [pc EXCEPT ![p] = "respond"]
  /\ UNCHANGED <<itemsLock, req, index, resp, nreq, before, serialItems>>
  /\ UNCHANGED <<sequel, accounting, call>>

\* updateItem: scan for the id; on a match items[index].Name = updatedItem.Name,
\* else 404
updateItem(p) ==
  /\ pc[p] = "cs"
  /\ req[p].kind = "updateItem"
  /\ LET i == IndexOf(items, req[p].id) IN
       /\ index' = [index EXCEPT ![p] = i]
       /\ IF i # 0
          THEN /\ items' = [items EXCEPT ![i].Name = item[p].Name]
               /\ pc' = [pc EXCEPT ![p] = "description"]
               /\ UNCHANGED resp
          ELSE /\ resp' = [resp EXCEPT ![p] = respondWithError(StatusNotFound, "Item not found")]
               /\ pc' = [pc EXCEPT ![p] = "unlock"]
               /\ UNCHANGED items
  /\ UNCHANGED <<itemsLock, req, item, nreq, before, serialItems>>
  /\ UNCHANGED <<sequel, accounting, call>>

\* items[index] = updatedItem: the whole item, id included, is overwritten
updateWholeItem(p) ==
  /\ pc[p] = "description"
  /\ items' = [items EXCEPT ![index[p]] = item[p]]
  /\ pc' = [pc EXCEPT ![p] = "respond"]
  /\ UNCHANGED <<itemsLock, req, item, index, resp, nreq, before, serialItems>>
  /\ UNCHANGED <<sequel, accounting, call>>

\* updateItem: items[index].Description = updatedItem.Description
updateDescription(p) ==
  /\ pc[p] = "description"
  /\ items' = [items EXCEPT ![index[p]].Description = item[p].Description]
  /\ pc' = [pc EXCEPT ![p] = "respond"]
  /\ UNCHANGED <<itemsLock, req, item, index, resp, nreq, before, serialItems>>
  /\ UNCHANGED <<sequel, accounting, call>>

\* a deleteItem that keeps items[:index] and forgets the items after the match
deleteItemTruncating(p) ==
  /\ pc[p] = "cs"
  /\ req[p].kind = "deleteItem"
  /\ LET i == IndexOf(items, req[p].id) IN
       /\ index' = [index EXCEPT ![p] = i]
       /\ IF i # 0
          THEN /\ items' = SubSeq(items, 1, i - 1)
               /\ pc' = [pc EXCEPT ![p] = "respond"]
               /\ UNCHANGED resp
          ELSE /\ resp' = [resp EXCEPT ![p] = respondWithError(StatusNotFound, "Item not found")]
               /\ pc' = [pc EXCEPT ![p] = "unlock"]
               /\ UNCHANGED items
  /\ UNCHANGED <<itemsLock, req, item, nreq, before, serialItems>>
  /\ UNCHANGED <<sequel, accounting, call>>

\* deleteItem: scan for the id; on a match remove items[index], else 404
deleteItem(p) ==
  /\ pc[p] = "cs"
  /\ req[p].kind = "deleteItem"
  /\ LET i == IndexOf(items, req[p].id) IN
       /\ index' = [index EXCEPT ![p] = i]
       /\ IF i # 0
          THEN /\ items' = RemoveAt(items, i)
               /\ pc' = [pc EXCEPT ![p] = "respond"]
               /\ UNCHANGED resp
          ELSE /\ resp' = [resp EXCEPT ![p] = respondWithError(StatusNotFound, "Item not found")]
               /\ pc' = [pc EXCEPT ![p] = "unlock"]
               /\ UNCHANGED items
  /\ UNCHANGED <<itemsLock, req, item, nreq, before, serialItems>>
  /\ UNCHANGED <<sequel, accounting, call>>

\* the payload of the success response of createItem, updateItem, deleteItem
SuccessResponse(p) ==
  CASE req[p].kind = "createItem" -> respondWithJSON(StatusCreated, item[p])
    [] req[p].kind = "updateItem" -> respondWithJSON(StatusOK, items[index[p]])
    [] req[p].kind = "deleteItem" ->
         respondWithJSON(StatusOK, [result |-> "success", id_deleted |-> req[p].id])

\* the respondWithJSON call that ends createItem, updateItem and deleteItem
Respond(p) ==
  /\ pc[p] = "respond"
  /\ resp' = [resp EXCEPT ![p] = SuccessResponse(p)]
  /\ answered201' = IF req[p].kind = "createItem" THEN answered201 + 1 ELSE answered201
  /\ answered200' = IF req[p].kind = "deleteItem" THEN answered200 + 1 ELSE answered200
  /\ pc' = [pc EXCEPT ![p] = "unlock"]
  /\ UNCHANGED <<items, itemsLock, req, item, index, nreq, before, serialItems>>
  /\ UNCHANGED <<sequel, call>>

\* a handler run alone on the collection s, with `id` the id createItem draws:
\* the collection it leaves and the response it writes
SerialOp(s, r, id) ==
  LET d == Decode(r.body)
      i == IndexOf(s, r.id)
  IN CASE r.kind = "getItems" ->
            [items |-> s, resp |-> respondWithJSON(StatusOK, [items |-> s])]
       [] r.kind = "getItem" ->
            [items |-> s,
             resp  |-> IF i # 0 THEN respondWithJSON(StatusOK, s[i])
                       ELSE respondWithError(StatusNotFound, "Item not found")]
       [] r.kind = "createItem" ->
            IF d.err
            THEN [items |-> s, resp |-> respondWithError(StatusBadRequest, "Invalid request payload")]
            ELSE LET stored == [d.item EXCEPT !.ID = id] IN
                   [items |-> Append(s, stored), resp |-> respondWithJSON(StatusCreated, stored)]
       [] r.kind = "updateItem" ->
            IF d.err
            THEN [items |-> s, resp |-> respondWithError(StatusBadRequest, "Invalid request payload")]
            ELSE IF i # 0
            THEN LET u == [s EXCEPT ![i].Name = d.item.Name, ![i].Description = d.item.Description] IN
                   [items |-> u, resp |-> respondWithJSON(StatusOK, u[i])]
            ELSE [items |-> s, resp |-> respondWithError(StatusNotFound, "Item not found")]
       [] r.kind = "deleteItem" ->
            IF i # 0
            THEN [items |-> RemoveAt(s, i),
                  resp  |-> respondWithJSON(StatusOK, [result |-> "success", id_deleted |-> r.id])]
            ELSE [items |-> s, resp |-> respondWithError(StatusNotFound, "Item not found")]

\* an Unlock written out before each return and forgotten on the not-found path
UnlockExceptNotFound(p) ==
  /\ pc[p] = "unlock"
  /\ itemsLock' = IF resp[p].code = StatusNotFound THEN itemsLock ELSE 0
  /\ pc' = [pc EXCEPT ![p] = "idle"]
  /\ serialItems' = SerialOp(serialItems, req[p], item[p].ID).items
  /\ lastCreated' = IF req[p].kind = "createItem" THEN resp[p].body ELSE NoItem
  /\ deletedSince' =
       IF req[p].kind = "createItem" THEN {}
       ELSE IF req[p].kind = "deleteItem" /\ resp[p].code = StatusOK
            THEN deletedSince \cup {req[p].id}
            ELSE deletedSince
  /\ before' = << >>
  /\ req' = [req EXCEPT ![p] = NoRequest]
  /\ item' = [item EXCEPT ![p] = ZeroItem]
  /\ index' = [index EXCEPT ![p] = 0]
  /\ resp' = [resp EXCEPT ![p] = NoResponse]
  /\ UNCHANGED <<items, nreq>>
  /\ UNCHANGED <<accounting, call>>

\* defer itemsLock.Unlock(): runs as the handler returns; the goroutine
\* ends, its locals and its ResponseWriter are gone
Unlock(p) ==
  /\ pc[p] = "unlock"
  /\ itemsLock' = 0
  /\ pc' = [pc EXCEPT ![p] = "idle"]
  /\ serialItems' = SerialOp(serialItems, req[p], item[p].ID).items
  /\ lastCreated' = IF req[p].kind = "createItem" THEN resp[p].body ELSE NoItem
  /\ deletedSince' =
       IF req[p].kind = "createItem" THEN {}
       ELSE IF req[p].kind = "deleteItem" /\ resp[p].code = StatusOK
            THEN deletedSince \cup {req[p].id}
            ELSE deletedSince
  /\ before' = << >>
  /\ req' = [req EXCEPT ![p] = NoRequest]
  /\ item' = [item EXCEPT ![p] = ZeroItem]
  /\ index' = [index EXCEPT ![p] = 0]
  /\ resp' = [resp EXCEPT ![p] = NoResponse]
  /\ UNCHANGED <<items, nreq>>
  /\ UNCHANGED <<accounting, call>>

\* return after the 400 of a body that does not decode: no lock is held, the
\* goroutine ends
Return(p) ==
  /\ pc[p] = "return"
  /\ pc' = [pc EXCEPT ![p] = "idle"]
  /\ req' = [req EXCEPT ![p] = NoRequest]
  /\ item' = [item EXCEPT ![p] = ZeroItem]
  /\ index' = [index EXCEPT ![p] = 0]
  /\ resp' = [resp EXCEPT ![p] = NoResponse]
  /\ UNCHANGED <<items, itemsLock, nreq, before, serialItems>>
  /\ UNCHANGED <<sequel, accounting, call>>

Next ==
  \E p \in Workers :
    \/ Accept(p)
    \/ DecodeBody(p)
    \/ Lock(p)
    \/ getItems(p)
    \/ getItem(p)
    \/ createItem(p)
    \/ updateItem(p)
    \/ updateDescription(p)
    \/ deleteItem(p)
    \/ Respond(p)
    \/ Unlock(p)
    \/ Return(p)

Spec == Init /\ [][Next]_vars

\* A goroutine that can run is scheduled (weak fairness of its steps), and a
\* goroutine blocked in Lock gets the mutex: sync.Mutex hands the lock to a
\* waiter that has waited long enough (strong fairness of Lock).  Requests
\* arrive or not: Accept has no fairness.
Run(p) ==
  \/ DecodeBody(p)
  \/ getItems(p)
  \/ getItem(p)
  \/ createItem(p)
  \/ updateItem(p)
  \/ updateDescription(p)
  \/ deleteItem(p)
  \/ Respond(p)
  \/ Unlock(p)
  \/ Return(p)

FairSpec ==
  /\ Spec
  /\ \A p \in Workers : WF_vars(Run(p))
  /\ \A p \in Workers : SF_vars(Lock(p))

\* ------------------------------------------- respondWithJSON, step by step
\* The status codes the handlers pass.
Codes == {StatusOK, StatusCreated, StatusBadRequest, StatusNotFound, StatusInternalServerError}

\* Payloads json.Marshal encodes: the ones the handlers pass.
Encodable ==
  { [items |-> SeedItems], [items |-> << >>] }
  \cup { SeedItems[i] : i \in 1..Len(SeedItems) }
  \cup { ErrorPayload(m) : m \in {"Item not found", "Invalid request payload",
                                  "Failed to marshal JSON response"} }
  \cup { [result |-> "success", id_deleted |-> i] : i \in PathIds }

\* Payloads json.Marshal rejects: payload is an interface{}, so a caller may
\* pass a channel, a function, a NaN or a cyclic value.
Unencodable == { [unsupported |-> k] : k \in {"chan", "func", "NaN", "cycle"} }

\* a call respondWithJSON(w, code, payload) on a fresh ResponseWriter: `code`
\* and `payload` are the arguments of the running (innermost) call, `w` the
\* responses written so far, `depth` the number of nested calls
RespondInit ==
  /\ ServerInit
  /\ \E c \in Codes, pl \in Encodable \cup Unencodable :
       call = [at |-> "marshal", code0 |-> c, payload0 |-> pl,
               code |-> c, payload |-> pl, w |-> << >>, depth |-> 0]

\* a respondWithJSON that drops the error of json.Marshal and writes anyway
MarshalAndWriteAnyway ==
  /\ call.at = "marshal"
  /\ call' = [call EXCEPT !.w = Append(@, Response(call.code, call.payload)),
                          !.at = "returned"]
  /\ UNCHANGED <<items, itemsLock, pc, req, item, index, resp, nreq, before, serialItems>>
  /\ UNCHANGED <<sequel, accounting>>

\* respondWithJSON: json.Marshal(payload); on an error go to the
\* respondWithError call, else write the header and the body and return
MarshalAndWrite ==
  /\ call.at = "marshal"
  /\ call' = IF MarshalFails(call.payload)
             THEN [call EXCEPT !.at = "error"]
             ELSE [call EXCEPT !.w = Append(@, Response(call.code, call.payload)),
                               !.at = "returned"]
  /\ UNCHANGED <<items, itemsLock, pc, req, item, index, resp, nreq, before, serialItems>>
  /\ UNCHANGED <<sequel, accounting>>

\* respondWithError(w, 500, "Failed to marshal JSON response"): the nested
\* respondWithJSON call; the caller returns right after it
CallRespondWithError ==
  /\ call.at = "error"
  /\ call.depth < MaxDepth
  /\ call' = [call EXCEPT !.code = StatusInternalServerError,
                          !.payload = ErrorPayload("Failed to marshal JSON response"),
                          !.depth = @ + 1,
                          !.at = "marshal"]
  /\ UNCHANGED <<items, itemsLock, pc, req, item, index, resp, nreq, before, serialItems>>
  /\ UNCHANGED <<sequel, accounting>>

RespondNext == MarshalAndWrite \/ CallRespondWithError

\* the call runs on: a goroutine that can run is scheduled
RespondSpec == RespondInit /\ [][RespondNext]_vars /\ WF_vars(RespondNext)

TypeOK ==
  /\ itemsLock \in {0} \cup Workers
  /\ nreq \in 0..MaxRequests
  /\ \A p \in Workers : pc[p] \in {"idle", "decode", "lock", "cs", "description", "respond", "unlock", "return"}

\* ------------------------------------------------------------------ claims
\* the positions of a handler between Lock and the deferred Unlock
Critical == {"cs", "description", "respond", "unlock"}

\* worker p has written its response and still holds the lock; `before` is
\* the collection as its handler found it
Answered(p, kind) == pc[p] = "unlock" /\ req[p].kind = kind

\* k is the first position of s whose id is id
IsFirstMatch(s, id, k) ==
  /\ k \in 1..Len(s)
  /\ s[k].ID = id
  /\ \A j \in 1..(k - 1) : s[j].ID # id

HasId(s, id) == \E i \in 1..Len(s) : s[i].ID = id

\* the name and description a decodable body carries (absent members are "")
BodyName(b) == IF "name" \in DOMAIN b.fields THEN b.fields.name ELSE ""
BodyDescription(b) == IF "description" \in DOMAIN b.fields THEN b.fields.description ELSE ""

NotFoundResponse == [code |-> 404, body |-> [error |-> "Item not found"]]
BadRequestResponse == [code |-> 400, body |-> [error |-> "Invalid request payload"]]

\* C1: no two Items of the collection ever have the same id.
C1_UniqueIds ==
  \A i, j \in 1..Len(items) : items[i].ID = items[j].ID => i = j

\* C2: Create with a decodable body responds 201 and the id in the response
\* differs from every id that was in the collection just before the call.
C2_CreateFreshId ==
  \A p \in Workers :
    Answered(p, "createItem") =>
      /\ resp[p].code = 201
      /\ ~HasId(before, resp[p].body.ID)

\* C3: when the id matches no Item of the collection, Get, Update (decodable
\* body) and Delete respond 404 and leave the collection exactly as it was.
C3_NotFoundUnchanged ==
  \A p \in Workers :
    ( /\ pc[p] \in {"description", "respond", "unlock"}
      /\ req[p].kind \in {"getItem", "updateItem", "deleteItem"}
      /\ ~HasId(before, req[p].id) )
    => /\ pc[p] = "unlock"
       /\ resp[p] = NotFoundResponse
       /\ items = before

\* C3 witness: a Delete of id "1" after "1" was deleted is answered 404.
C3_Witness ==
  \E p \in Workers :
    /\ Answered(p, "deleteItem")
    /\ req[p].id = "1"
    /\ ~HasId(before, "1")
    /\ resp[p].code = 404

\* C4: an Update answered 200 keeps the length, the position and id of the
\* first item with the path id, sets that item's name and description to the
\* body's, ignores the body's id, returns the updated item and leaves every
\* other item where and as it was.
C4_UpdateFrame ==
  \A p \in Workers :
    (Answered(p, "updateItem") /\ resp[p].code = 200) =>
      \E k \in 1..Len(before) :
        /\ IsFirstMatch(before, req[p].id, k)
        /\ Len(items) = Len(before)
        /\ items[k] = [ID          |-> req[p].id,
                       Name        |-> BodyName(req[p].body),
                       Description |-> BodyDescription(req[p].body)]
        /\ resp[p].body = items[k]
        /\ \A j \in 1..Len(before) : j # k => items[j] = before[j]

\* C4 witness: an Update of "1" whose body carries another id is answered 200.
C4_Witness ==
  \E p \in Workers :
    /\ Answered(p, "updateItem")
    /\ resp[p].code = 200
    /\ "id" \in DOMAIN req[p].body.fields
    /\ req[p].body.fields.id # req[p].id

\* C5: a Delete answered 200 names the path id in id_deleted, shortens the
\* collection by one, removes the first item with that id and keeps the
\* others unchanged and in order.
C5_DeleteFrame ==
  \A p \in Workers :
    (Answered(p, "deleteItem") /\ resp[p].code = 200) =>
      /\ resp[p].body = [result |-> "success", id_deleted |-> req[p].id]
      /\ \E k \in 1..Len(before) :
           /\ IsFirstMatch(before, req[p].id, k)
           /\ Len(items) = Len(before) - 1
           /\ \A j \in 1..(k - 1) : items[j] = before[j]
           /\ \A j \in k..Len(items) : items[j] = before[j + 1]

\* C5 witness: a Delete of "1" when two items carry the id "1" removes the
\* first and keeps the second, which is now last.
C5_Witness ==
  \E p \in Workers :
    /\ Answered(p, "deleteItem")
    /\ resp[p].code = 200
    /\ Len(before) = 6
    /\ before[1].ID = "1"
    /\ before[6].ID = "1"
    /\ items[5] = before[6]

\* C6: a Create or Update whose body cannot be decoded is answered 400,
\* whether or not the path id exists, and never touches the collection: the
\* handler returns from the decode step, which leaves `items` as they are,
\* and never takes the lock.
C6_BadBody ==
  /\ [](\A p \in Workers :
          (req[p].kind \in {"createItem", "updateItem"} /\ ~req[p].body.wellformed) =>
            /\ pc[p] \in {"decode", "return"}
            /\ itemsLock # p
            /\ pc[p] = "return" => resp[p] = BadRequestResponse)
  /\ [][\A p \in Workers :
          (pc[p] = "decode" /\ ~req[p].body.wellformed /\ pc'[p] # pc[p]) =>
            /\ items' = items
            /\ pc'[p] = "return"
            /\ resp'[p] = BadRequestResponse]_vars

\* C6 witness: an Update of the existing id "1" with a malformed body is
\* answered 400.
C6_Witness ==
  \E p \in Workers :
    /\ pc[p] = "return"
    /\ req[p].kind = "updateItem"
    /\ req[p].id = "1"
    /\ HasId(items, "1")
    /\ ~req[p].body.wellformed
    /\ resp[p].code = 400

\* C7: at most one handler is between Lock and Unlock at any time, that
\* handler holds the lock, and the collection changes only in a step of the
\* handler that holds the lock.
C7_MutualExclusion ==
  /\ [](\A p \in Workers : pc[p] \in Critical => itemsLock = p)
  /\ [](\A p, q \in Workers : (pc[p] \in Critical /\ pc[q] \in Critical) => p = q)
  /\ [][items' # items =>
          \E p \in Workers : itemsLock = p /\ pc[p] \in Critical /\ pc'[p] # pc[p]]_vars

\* C7 witness: one handler is in the middle of an update while the other
\* waits for the lock.
C7_Witness ==
  \E p, q \in Workers :
    /\ p # q
    /\ pc[p] = "description"
    /\ itemsLock = p
    /\ pc[q] = "lock"

\* C8: the collection and every response are those of running the requests
\* one at a time in the order they acquired the lock, and no other handler is
\* between Lock and Unlock while a Create, Update or Delete is partly applied.
C8_Atomic ==
  /\ itemsLock = 0 => items = serialItems
  /\ \A p \in Workers :
       pc[p] = "unlock" =>
         LET r == SerialOp(serialItems, req[p], item[p].ID) IN
           /\ items = r.items
           /\ resp[p] = r.resp
  /\ \A p \in Workers :
       (pc[p] = "return" /\ req[p].kind \in {"createItem", "updateItem"}) =>
         resp[p] = SerialOp(serialItems, req[p], "").resp
  /\ \A p, q \in Workers :
       (pc[p] \in {"description", "respond"} /\ p # q) => pc[q] \notin Critical

\* C8 witness: an Update is answered 200 and has changed the collection while
\* a Delete of the same id waits for the lock.
C8_Witness ==
  \E p, q \in Workers :
    /\ p # q
    /\ Answered(p, "updateItem")
    /\ resp[p].code = 200
    /\ items # serialItems
    /\ pc[q] = "lock"
    /\ req[q].kind = "deleteItem"
    /\ req[q].id = req[p].id

\* C9: a handler holds no lock while it waits for the lock or once it has
\* returned, it returns only after it has written a response, and under fair
\* scheduling the lock is free again and again and every accepted request
\* returns (a worker that serves a request is, later, idle again).
C9_ReleaseAndProgress ==
  /\ [](\A p \in Workers : pc[p] \in {"idle", "decode", "lock", "return"} => itemsLock # p)
  /\ [][\A p \in Workers : (pc[p] # "idle" /\ pc'[p] = "idle") => resp[p].code # 0]_vars
  /\ []<>(itemsLock = 0)
  /\ \A p \in Workers : []<>(pc[p] = "idle")

\* C9 witness: a handler on its not-found path holds the lock while another
\* request waits for it.
C9_Witness ==
  \E p, q \in Workers :
    /\ p # q
    /\ pc[p] = "unlock"
    /\ resp[p].code = 404
    /\ itemsLock = p
    /\ pc[q] = "lock"

\* C10: Create with a decodable body appends one item: the length grows by
\* one, the last item has the body's name and description and an id the
\* server drew (not the body's), the response is that item, and the items
\* that were there keep their content and order.
C10_CreateAppends ==
  \A p \in Workers :
    Answered(p, "createItem") =>
      /\ resp[p].code = 201
      /\ Len(items) = Len(before) + 1
      /\ SubSeq(items, 1, Len(before)) = before
      /\ items[Len(items)].Name = BodyName(req[p].body)
      /\ items[Len(items)].Description = BodyDescription(req[p].body)
      /\ \E d \in Draws : items[Len(items)].ID = Itoa(d)
      /\ resp[p].body = items[Len(items)]

\* C10 witness: a Create whose body carries an id is answered 201 with
\* another id.
C10_Witness ==
  \E p \in Workers :
    /\ Answered(p, "createItem")
    /\ resp[p].code = 201
    /\ "id" \in DOMAIN req[p].body.fields
    /\ resp[p].body.ID # req[p].body.fields.id
    /\ Len(items) = 6

\* C11: a Get of an id some item carries is answered 200 with the first item
\* of the collection, in its current order, that carries the id, and the
\* collection stays as it was.
C11_GetFirstMatch ==
  \A p \in Workers :
    (Answered(p, "getItem") /\ HasId(before, req[p].id)) =>
      /\ \E k \in 1..Len(before) :
           /\ IsFirstMatch(before, req[p].id, k)
           /\ resp[p] = [code |-> 200, body |-> before[k]]
      /\ items = before

\* C11 witness: a Get of "1" when two different items carry the id "1" is
\* answered with the first.
C11_Witness ==
  \E p \in Workers :
    /\ Answered(p, "getItem")
    /\ Len(before) = 6
    /\ before[1].ID = "1"
    /\ before[6].ID = "1"
    /\ before[6] # before[1]
    /\ resp[p].code = 200
    /\ resp[p].body = before[1]

\* C12: List is answered 200 with the whole collection as it is, in order,
\* while the handler holds the lock, and the collection stays as it was.
C12_ListAll ==
  \A p \in Workers :
    Answered(p, "getItems") =>
      /\ itemsLock = p
      /\ resp[p] = [code |-> 200, body |-> [items |-> before]]
      /\ items = before

\* C12 witness: a List after a Create or a Delete is answered with the
\* changed collection.
C12_Witness ==
  \E p \in Workers :
    /\ Answered(p, "getItems")
    /\ resp[p].code = 200
    /\ resp[p].body.items = items
    /\ Len(items) # Len(SeedItems)

\* C13: no handler writes its response while it holds the lock: whenever a
\* worker has written a response, it does not hold the lock.
C13_NoResponseUnderLock ==
  \A p \in Workers : resp[p].code # 0 => itemsLock # p

\* C14: a respondWithJSON call whose payload cannot be encoded writes exactly
\* one response, the 500 with the JSON error, and not the status it was
\* given; the calls between respondWithJSON and respondWithError nest once
\* and the call returns.  A payload that encodes is written once as given.
C14_MarshalFailure ==
  /\ [](call.depth <= 1)
  /\ [](call.at = "returned" =>
          /\ Len(call.w) = 1
          /\ call.w[1] = respondWithJSON(call.code0, call.payload0)
          /\ MarshalFails(call.payload0) =>
               call.w[1] = [code |-> 500, body |-> [error |-> "Failed to marshal JSON response"]]
          /\ ~MarshalFails(call.payload0) =>
               call.w[1] = [code |-> call.code0, body |-> call.payload0])
  /\ <>(call.at = "returned")

\* C14 witness: a call given 200 and a payload that holds a channel has
\* returned after writing the 500.
C14_Witness ==
  /\ call.at = "returned"
  /\ call.code0 = 200
  /\ call.payload0 = [unsupported |-> "chan"]
  /\ call.depth = 1
  /\ call.w[1].code = 500

\* C15: a Get of the id X that the Create just before it (no other request
\* between them) was answered with is answered 200 with the created item.
C15_ReadYourWrite ==
  \A p \in Workers :
    ( /\ Answered(p, "getItem")
      /\ lastCreated # NoItem
      /\ lastCreated.ID = req[p].id )
    => resp[p] = [code |-> 200, body |-> lastCreated]

\* C16: once a Delete of X is answered 200, every Get, Update and Delete of X
\* is answered 404 as long as no Create has run since.
C16_DeleteFinal ==
  \A p \in Workers :
    ( /\ pc[p] = "unlock"
      /\ req[p].kind \in {"getItem", "updateItem", "deleteItem"}
      /\ req[p].id \in deletedSince )
    => resp[p].code = 404

\* the length the answers account for
AccountedLength == Len(SeedItems) + answered201 - answered200

\* C17: in every reachable state the length of the collection is the seed
\* length plus the Creates answered 201 minus the Deletes answered 200, and
\* List, Get, Update and every request answered 400 or 404 leave the length
\* as it was.
C17_LengthAccounting ==
  /\ Len(items) = AccountedLength
  /\ \A p \in Workers :
       (pc[p] = "unlock" /\ (req[p].kind \in {"getItems", "getItem", "updateItem"}
                             \/ resp[p].code \in {400, 404}))
       => Len(items) = Len(before)

\* C17 as amended: the same, in the states in which no Create or Delete
\* stands between its change of the collection and its response (so whenever
\* the lock is free).
C17_LengthAccountingAnswered ==
  /\ (\A p \in Workers : ~(pc[p] = "respond" /\ req[p].kind \in {"createItem", "deleteItem"}))
       => Len(items) = AccountedLength
  /\ \A p \in Workers :
       (pc[p] = "unlock" /\ (req[p].kind \in {"getItems", "getItem", "updateItem"}
                             \/ resp[p].code \in {400, 404}))
       => Len(items) = Len(before)
  /\ \A p \in Workers : pc[p] = "return" => resp[p].code = 400

\* C17 witness: the lock is free after a Create answered 201 and a Delete
\* answered 200.
C17_Witness ==
  /\ itemsLock = 0
  /\ answered201 = 1
  /\ answered200 = 1
  /\ Len(items) = Len(SeedItems)
  /\ items # SeedItems

====
